---------------------------- MODULE Spec2Model ----------------------------
(***************************************************************************)
(* Model of refactor_pup_cli.py: the marker-based patch primitives, the    *)
(* document store (_read_text/_write_text/_backup_file), the patch         *)
(* routines and the orchestration in main().                               *)
(*                                                                         *)
(* A text is a sequence of fragments.  A fragment is either one character  *)
(* ("\n", "\r", "}", "a") or a literal piece of source text that the       *)
(* script searches for or inserts as a whole (a marker, a guard).  Python  *)
(* offsets are 0-based; the operators below keep that convention.          *)
(***************************************************************************)
EXTENDS Integers, Sequences, FiniteSets, TLC

NL == "\n"

Min(S) == CHOOSE x \in S : \A y \in S : x <= y

\* Python s[a:b] for 0 <= a, b (clamped to the length like Python does).
Slice(s, a, b) ==
    LET hi == IF b > Len(s) THEN Len(s) ELSE b
    IN  IF a >= hi THEN <<>> ELSE SubSeq(s, a + 1, hi)

\* s[a:]
SliceFrom(s, a) == Slice(s, a, Len(s))

\* sub occurs in s at 0-based offset i.
IsAt(s, sub, i) ==
    /\ i >= 0
    /\ i + Len(sub) <= Len(s)
    /\ \A k \in 1..Len(sub) : s[i + k] = sub[k]

\* Python s.find(sub, from): lowest offset >= from where sub occurs, else -1.
Find(s, sub, from) ==
    LET C == { i \in from..(Len(s) - Len(sub)) : IsAt(s, sub, i) }
    IN  IF C = {} THEN -1 ELSE Min(C)

\* Python "sub in s".
Contains(s, sub) == Find(s, sub, 0) >= 0

\* Python s.endswith("\n").
EndsWithNL(s) == Len(s) > 0 /\ s[Len(s)] = NL

(***************************************************************************)
(* Document store.                                                         *)
(***************************************************************************)
\* The text _write_text stores for s: it appends a newline only when s does
\* not already end with one.
WriteText(s) == IF ~EndsWithNL(s) THEN s \o <<NL>> ELSE s

(***************************************************************************)
(* Patch primitives.  A result is what the call gives back: ok = FALSE is  *)
(* a raised PatchError carrying err, and then no text is returned.  The    *)
(* guard is already_ok_substring, an Optional[str]: None, or Some(text).   *)
(***************************************************************************)
None == <<>>
Some(text) == <<text>>

Returned(text, changed) ==
    [ok |-> TRUE, text |-> text, changed |-> changed, err |-> ""]

Raised(msg) ==
    [ok |-> FALSE, text |-> <<>>, changed |-> FALSE, err |-> msg]

\* Mutant of GuardHit: the guard is compared with the whole text.
GuardIsWholeText(content, guard) ==
    guard # None /\ guard[1] # <<>> /\ content = guard[1]

\* "already_ok_substring and already_ok_substring in content": None and the
\* empty string are both falsy.
GuardHit(content, guard) ==
    guard # None /\ guard[1] # <<>> /\ Contains(content, guard[1])

ErrReplaceOnce == "Expected patch target not found."
ErrInsertAfter == "Expected anchor not found for insertion."
ErrInsertBefore == "Expected marker not found for insertion."
ErrStartMarker == "Start marker not found."
ErrEndMarker == "End marker not found."

\* Mutant of _replace_once: a missing target is skipped silently.
ReplaceOnceSkipsMissing(content, old, new, guard) ==
    IF GuardHit(content, guard) \/ ~Contains(content, old)
    THEN [ok |-> TRUE, text |-> content, changed |-> FALSE, err |-> ""]
    ELSE LET idx == Find(content, old, 0)
         IN  [ok |-> TRUE,
              text |-> Slice(content, 0, idx) \o new
                         \o SliceFrom(content, idx + Len(old)),
              changed |-> TRUE, err |-> ""]

\* Mutant of _replace_once: every occurrence is replaced (the count is lost);
\* the scan restarts after each replacement as str.replace does.
RECURSIVE ReplaceEvery(_, _, _)
ReplaceEvery(content, old, new) ==
    LET idx == Find(content, old, 0)
    IN  IF idx < 0 \/ old = <<>> THEN content
        ELSE Slice(content, 0, idx) \o new
               \o ReplaceEvery(SliceFrom(content, idx + Len(old)), old, new)

ReplaceOnceReplacesAll(content, old, new, guard) ==
    IF GuardHit(content, guard) THEN Returned(content, FALSE)
    ELSE IF ~Contains(content, old) THEN Raised(ErrReplaceOnce)
    ELSE Returned(ReplaceEvery(content, old, new), TRUE)

_replace_once(content, old, new, guard) ==
    IF GuardHit(content, guard) THEN Returned(content, FALSE)
    ELSE IF ~Contains(content, old) THEN Raised(ErrReplaceOnce)
    ELSE LET idx == Find(content, old, 0)
         IN  Returned(Slice(content, 0, idx) \o new
                        \o SliceFrom(content, idx + Len(old)), TRUE)

\* Mutant of _insert_after: the text is spliced at the start of the anchor.
InsertAfterAtAnchorStart(content, anchor, insert, guard) ==
    IF GuardHit(content, guard) THEN Returned(content, FALSE)
    ELSE LET idx == Find(content, anchor, 0)
         IN  IF idx < 0 THEN Raised(ErrInsertAfter)
             ELSE Returned(Slice(content, 0, idx) \o insert
                             \o SliceFrom(content, idx), TRUE)

_insert_after(content, anchor, insert, guard) ==
    IF GuardHit(content, guard) THEN Returned(content, FALSE)
    ELSE LET idx == Find(content, anchor, 0)
         IN  IF idx < 0 THEN Raised(ErrInsertAfter)
             ELSE LET idx_end == idx + Len(anchor)
                  IN  Returned(Slice(content, 0, idx_end) \o insert
                                 \o SliceFrom(content, idx_end), TRUE)

_insert_before(content, marker, insert, guard) ==
    IF GuardHit(content, guard) THEN Returned(content, FALSE)
    ELSE LET idx == Find(content, marker, 0)
         IN  IF idx < 0 THEN Raised(ErrInsertBefore)
             ELSE Returned(Slice(content, 0, idx) \o insert
                             \o SliceFrom(content, idx), TRUE)

\* Mutant of _replace_between: the end marker is searched from the start of
\* the text.
ReplaceBetweenEndFromZero(content, start_marker, end_marker, replacement, guard) ==
    IF GuardHit(content, guard) THEN Returned(content, FALSE)
    ELSE LET start == Find(content, start_marker, 0)
         IN  IF start < 0 THEN Raised(ErrStartMarker)
             ELSE LET end == Find(content, end_marker, 0)
                  IN  IF end < 0 THEN Raised(ErrEndMarker)
                      ELSE Returned(Slice(content, 0, start) \o replacement
                                      \o SliceFrom(content, end), TRUE)

_replace_between(content, start_marker, end_marker, replacement, guard) ==
    IF GuardHit(content, guard) THEN Returned(content, FALSE)
    ELSE LET start == Find(content, start_marker, 0)
         IN  IF start < 0 THEN Raised(ErrStartMarker)
             ELSE LET end == Find(content, end_marker, start)
                  IN  IF end < 0 THEN Raised(ErrEndMarker)
                      ELSE Returned(Slice(content, 0, start) \o replacement
                                      \o SliceFrom(content, end), TRUE)


(***************************************************************************)
(* Block extractor.                                                        *)
(***************************************************************************)
CR == "\r"
RBRACE == "}"
FN_FORMAT_TEXT == "function formatText"
RET_SINGLE == "return lines.join('\\n');"
RET_DOUBLE == "return lines.join(\"\\n\");"

marker_candidates == << <<RET_SINGLE>>, <<RET_DOUBLE>> >>

ErrNoFormatText ==
    "Could not find 'function formatText' in src/index.js (already refactored?)"
ErrNoReturnMarker ==
    "Could not find 'return lines.join(\\n)' marker inside formatText()."
ErrNoClosingBrace == "Could not find the closing brace of formatText()."

\* The for loop over marker_candidates: the first candidate found at or after
\* start decides ret; -1 when none is found.
FirstCandidate(index_js, start) ==
    LET hits == { k \in 1..Len(marker_candidates) :
                    Find(index_js, marker_candidates[k], start) >= 0 }
    IN  IF hits = {} THEN -1
        ELSE Find(index_js, marker_candidates[Min(hits)], start)

_extract_format_text_function(index_js) ==
    LET start == Find(index_js, <<FN_FORMAT_TEXT>>, 0)
    IN  IF start < 0 THEN Raised(ErrNoFormatText)
        ELSE LET ret == FirstCandidate(index_js, start)
             IN  IF ret < 0 THEN Raised(ErrNoReturnMarker)
                 ELSE LET end == Find(index_js, <<NL, RBRACE, NL>>, ret)
                          endCrLf == Find(index_js, <<CR, NL, RBRACE, CR, NL>>, ret)
                      IN  IF end < 0
                          THEN IF endCrLf < 0 THEN Raised(ErrNoClosingBrace)
                               ELSE Returned(Slice(index_js, start, endCrLf + 4), FALSE)
                          ELSE Returned(Slice(index_js, start, end + 3), FALSE)

(***************************************************************************)
(* Patch routines.  A routine state carries the in-memory buffer (text),   *)
(* changed_any (changed) and, once a step has raised, ok = FALSE with the  *)
(* message (err) and the place that raised (step); the buffer and          *)
(* changed_any then stay as they were when the step raised.                *)
(***************************************************************************)
NoStep == [stage |-> "", step |-> 0]
Site(stage, n) == [stage |-> stage, step |-> n]

\* content = _read_text(p); changed_any = False.  Step 0 of a routine is its
\* read, which raises when the document does not exist.
Begin(stage, rd) ==
    [ok |-> rd.ok, text |-> rd.text, changed |-> FALSE, err |-> rd.err,
     step |-> IF rd.ok THEN NoStep ELSE Site(stage, 0)]

\* content = ...; changed_any = True
Edit(st, text) == [st EXCEPT !.text = text, !.changed = TRUE]

\* raise PatchError(msg) in step
Fail(st, step, msg) == [st EXCEPT !.ok = FALSE, !.err = msg, !.step = step]

\* content, changed = <primitive>(...); changed_any = changed_any or changed
Apply(st, step, r) ==
    IF r.ok
    THEN [st EXCEPT !.text = r.text, !.changed = st.changed \/ r.changed]
    ELSE Fail(st, step, r.err)

\* ---- src/core/kernel.js ----
NEEDS_ENABLE_DOMAINS == "const NEEDS_ENABLE_DOMAINS"
REQ_ERRORS == "const { isRetryableError } = require('../utils/errors');"
NEEDS_ENABLE_SET == "needsEnable = new Set"
ALLOW_COMMENT == "// some domains do not require enable; keep allowlist"
ALLOW_IF == "if (!needsEnable.has(d)) { this._enabled.add(d); return; }"
SHARED_COMMENT == "// some domains do not require enable; keep allowlist (shared)"
SHARED_IF == "if (!NEEDS_ENABLE_DOMAINS.has(d)) { this._enabled.add(d); return; }"
RUN_COMMAND == "  async runCommand(name, ctx = {}) {"
GET_COMMAND_INFO == "getCommandInfo(name)"
INDENT4 == "    "

ErrKernelRequire ==
    "kernel.js: cannot find isRetryableError require line for insertion."
ErrKernelEol == "kernel.js: cannot locate EOL after isRetryableError require."
ErrKernelAllow == "kernel.js: failed to patch CDPClient.enable() allowlist block."

\* The text the compiled pattern matches apart from surrounding white space:
\* the comment line, the inline Set and the if block.
AllowBlock == <<ALLOW_COMMENT, NEEDS_ENABLE_SET, ALLOW_IF>>

KernelInsert ==
    <<NL, NL, "// Shared allowlist to avoid allocating a Set on every CDPClient.enable() call.",
      NL, NEEDS_ENABLE_DOMAINS, " = new Set(['Page', ...]);", NL>>

InsertMethod ==
    <<NL, NL, "/** Get detailed command info for help/introspection. */", NL,
      GET_COMMAND_INFO, " { ... }", NL, NL>>

IsSpace(c) == c \in {NL, CR, INDENT4}

\* Offset where the white space run ending just before offset i begins: (\s*)
SpaceStart(s, i) ==
    Min({ j \in 0..i : \A k \in (j + 1)..i : IsSpace(s[k]) })

\* Offset just after the white space run beginning at offset i: trailing \s*
SpaceEnd(s, i) ==
    Min({ j \in i..Len(s) : j = Len(s) \/ ~IsSpace(s[j + 1]) })

\* pattern.subn(_repl, content, count=1): the leftmost match is replaced;
\* group 1 is the white space before the comment, the trailing \s* is consumed.
AllowSubn(content) ==
    LET at == Find(content, AllowBlock, 0)
    IN  IF at < 0 THEN [n |-> 0, text |-> content]
        ELSE LET from == SpaceStart(content, at)
                 to == SpaceEnd(content, at + Len(AllowBlock))
                 g1 == Slice(content, from, at)
                 ind == IF g1 = <<>> THEN <<INDENT4>> ELSE g1
             IN  [n |-> 1,
                  text |-> Slice(content, 0, from)
                             \o ind \o <<SHARED_COMMENT, NL>>
                             \o ind \o <<SHARED_IF, NL>>
                             \o SliceFrom(content, to)]

KernelStep1(st) ==
    IF ~st.ok \/ Contains(st.text, <<NEEDS_ENABLE_DOMAINS>>) THEN st
    ELSE LET idx == Find(st.text, <<REQ_ERRORS>>, 0)
         IN  IF idx < 0 THEN Fail(st, Site("kernel", 1), ErrKernelRequire)
             ELSE LET eol == Find(st.text, <<NL>>, idx)
                  IN  IF eol < 0 THEN Fail(st, Site("kernel", 1), ErrKernelEol)
                      ELSE Edit(st, Slice(st.text, 0, eol + 1) \o KernelInsert
                                      \o SliceFrom(st.text, eol + 1))

KernelStep2(st) ==
    IF ~st.ok \/ ~Contains(st.text, <<NEEDS_ENABLE_SET>>) THEN st
    ELSE LET m == AllowSubn(st.text)
         IN  IF m.n = 0 THEN Fail(st, Site("kernel", 2), ErrKernelAllow)
             ELSE Edit(st, m.text)

KernelStep3(st) ==
    IF ~st.ok \/ Contains(st.text, <<GET_COMMAND_INFO>>) THEN st
    ELSE Apply(st, Site("kernel", 3),
               _insert_before(st.text, <<RUN_COMMAND>>, InsertMethod,
                              Some(<<GET_COMMAND_INFO>>)))

PatchKernel(rd) == KernelStep3(KernelStep2(KernelStep1(Begin("kernel", rd))))

\* ---- src/core/plugin-manager.js ----
IS_PLUGIN_ENABLED == "  _isPluginEnabled(name, meta) {"
LIST_PLUGIN_METAS == "listPluginMetas()"

PluginInsert ==
    <<NL, NL, "/** List metas for loaded plugins (for dynamic help/UX). */", NL,
      LIST_PLUGIN_METAS, " { ... }", NL, NL, "getPluginMeta(name) { ... }", NL, NL>>

PluginStep1(st) ==
    IF ~st.ok \/ Contains(st.text, <<LIST_PLUGIN_METAS>>) THEN st
    ELSE Apply(st, Site("plugin-manager", 1),
               _insert_before(st.text, <<IS_PLUGIN_ENABLED>>, PluginInsert,
                              Some(<<LIST_PLUGIN_METAS>>)))

PatchPluginManager(rd) == PluginStep1(Begin("plugin-manager", rd))

\* ---- src/plugins/core-navigation.js ----
\* The two markers are Chinese comment lines in the source; their English
\* reading stands for them here.
NAV_START == "      // check visible element count"
NAV_END == "      // check whether only an error message is shown"
NAV_GUARD == "visibleCount < needVisibleThreshold"

NavReplacement ==
    <<NL, "// check visible element count (early exit at threshold) ...",
      "const isBlank = bodyText.length < 50 && ", NAV_GUARD,
      " && bodyHtml.length < 500; ...", NL, NL>>

NavStep1(st) ==
    IF ~st.ok THEN st
    ELSE Apply(st, Site("navigation", 1),
          _replace_between(st.text, <<NAV_START>>, <<NAV_END>>, NavReplacement,
                           Some(<<NAV_GUARD>>)))

PatchNavigation(rd) == NavStep1(Begin("navigation", rd))

\* ---- src/plugins/core-scanner.js ----
CONST_OPEN == "const { "
REQUIRE_POOL == "require('../utils/promise-pool')"
PMAP_EQ == "pMap } = "
SEMI == ";"
ASYNC_REQ == "const { withTimeout, sleep } = require('../utils/async');"
ASYNC_ALT == "const { sleep, withTimeout } = require('../utils/async');"
BOX_START == "  // For each candidate, fetch box model to check viewport intersection"
BOX_END == "  const page = await kernel.page();"
BOX_GUARD == "batchModels = await Promise.all"
ENHANCE_START == "async function enhanceWithDOM(kernel, elements) {"
ENHANCE_END == "async function scanAll(kernel) {"
ENHANCE_GUARD == "const enhanced = await pMap"

ErrScannerRequire == "core-scanner.js: cannot find async require line for pMap import."

PoolImport == <<CONST_OPEN, PMAP_EQ, REQUIRE_POOL, SEMI, NL>>

NewBlock ==
    <<NL, "// For each candidate, fetch box model to check viewport intersection.",
      NL, "const ", BOX_GUARD, "(batch.map(...)); ...", NL, NL>>

NewEnhance ==
    <<ENHANCE_START, NL, ENHANCE_GUARD, "(list, async (el) => { ... }); ...", NL, NL>>

\* re.search of the fallback pattern: a require of '../utils/async' that
\* names sleep, any white space, a newline; the matched text is the anchor.
AsyncLines == {ASYNC_REQ, ASYNC_ALT}

Max(S) == CHOOSE x \in S : \A y \in S : x >= y

AsyncSearch(content) ==
    LET ends(i) == { k \in (i + 2)..SpaceEnd(content, i + 1) : content[k] = NL }
        hits == { i \in 0..(Len(content) - 2) :
                    content[i + 1] \in AsyncLines /\ ends(i) # {} }
    IN  IF hits = {} THEN <<>>
        ELSE Slice(content, Min(hits), Max(ends(Min(hits))))

ScannerStep1(st) ==
    IF ~st.ok \/ Contains(st.text, <<REQUIRE_POOL>>) THEN st
    ELSE LET exact == <<ASYNC_REQ, NL>>
             m == AsyncSearch(st.text)
         IN  IF ~Contains(st.text, exact) /\ m = <<>>
             THEN Fail(st, Site("scanner", 1), ErrScannerRequire)
             ELSE Apply(st, Site("scanner", 1),
                        _insert_after(st.text,
                                      IF Contains(st.text, exact) THEN exact ELSE m,
                                      PoolImport, Some(<<PMAP_EQ, REQUIRE_POOL>>)))

ScannerStep2(st) ==
    IF ~st.ok THEN st
    ELSE Apply(st, Site("scanner", 2),
               _replace_between(st.text, <<BOX_START>>, <<BOX_END>>, NewBlock,
                                Some(<<BOX_GUARD>>)))

ScannerStep3(st) ==
    IF ~st.ok \/ Contains(st.text, <<ENHANCE_GUARD>>) THEN st
    ELSE Apply(st, Site("scanner", 3),
               _replace_between(st.text, <<ENHANCE_START>>, <<ENHANCE_END>>,
                                NewEnhance, Some(<<ENHANCE_GUARD>>)))

PatchScanner(rd) == ScannerStep3(ScannerStep2(ScannerStep1(Begin("scanner", rd))))

(***************************************************************************)
(* Documents on disk.                                                      *)
(***************************************************************************)
INDEX == "src/index.js"
FMT == "src/cli/format-text.js"
KERNEL == "src/core/kernel.js"
PLUGIN_MANAGER == "src/core/plugin-manager.js"
NAVIGATION == "src/plugins/core-navigation.js"
SCANNER == "src/plugins/core-scanner.js"

\* The modules _write_cli_modules writes after format-text.js, in its order.
GenPaths ==
    <<"src/cli/writer.js", "src/cli/serialize.js", "src/cli/args.js",
      "src/cli/banner.js", "src/cli/repl.js", "src/cli/help.js",
      "src/utils/promise-pool.js">>

GenSet == { GenPaths[i] : i \in 1..Len(GenPaths) }

\* The files main() backs up, in its order.
KeyFiles == <<INDEX, KERNEL, PLUGIN_MANAGER, NAVIGATION, SCANNER>>

Targets == {KERNEL, PLUGIN_MANAGER, NAVIGATION, SCANNER}

Paths == {INDEX, FMT} \cup Targets \cup GenSet

Absent == [exists |-> FALSE, text |-> <<>>]
File(text) == [exists |-> TRUE, text |-> text]

\* Text mode with universal newlines: "\r\n" and a lone "\r" read as "\n".
RECURSIVE UniversalNewlines(_)
UniversalNewlines(s) ==
    IF s = <<>> THEN <<>>
    ELSE IF Head(s) = CR
    THEN <<NL>> \o UniversalNewlines(
             IF Len(s) >= 2 /\ s[2] = NL THEN SliceFrom(s, 2) ELSE Tail(s))
    ELSE <<Head(s)>> \o UniversalNewlines(Tail(s))

ErrFileNotFound == "FileNotFoundError"

\* _read_text: the text, or the FileNotFoundError read_text raises.
_read_text(files, p) ==
    IF files[p].exists THEN Returned(UniversalNewlines(files[p].text), FALSE)
    ELSE Raised(ErrFileNotFound)

\* _write_text: parents are created as needed, so the write always succeeds.
_write_text(files, p, s) == [files EXCEPT ![p] = File(WriteText(s))]

\* _backup_file: the copy is named by the path and the time stamp (one second
\* resolution) and replaces a copy of the same name.
\* Mutant of _backup_file: the enabled flag is not looked at.
BackupIgnoresFlag(baks, files, p, enabled, ts) ==
    IF ~files[p].exists THEN baks
    ELSE { b \in baks : ~(b.path = p /\ b.ts = ts) }
           \cup { [path |-> p, ts |-> ts, text |-> files[p].text] }

_backup_file(baks, files, p, enabled, ts) ==
    IF ~enabled \/ ~files[p].exists THEN baks
    ELSE { b \in baks : ~(b.path = p /\ b.ts = ts) }
           \cup { [path |-> p, ts |-> ts, text |-> files[p].text] }

RECURSIVE BackupAll(_, _, _, _, _)
BackupAll(baks, files, rels, enabled, ts) ==
    IF rels = <<>> THEN baks
    ELSE BackupAll(IF files[Head(rels)].exists
                   THEN _backup_file(baks, files, Head(rels), enabled, ts)
                   ELSE baks,
                   files, Tail(rels), enabled, ts)

(***************************************************************************)
(* Generated documents.                                                    *)
(***************************************************************************)
RECURSIVE LStrip(_)
LStrip(s) == IF s # <<>> /\ IsSpace(Head(s)) THEN LStrip(Tail(s)) ELSE s

RECURSIVE RStrip(_)
RStrip(s) ==
    IF s # <<>> /\ IsSpace(s[Len(s)]) THEN RStrip(Slice(s, 0, Len(s) - 1)) ELSE s

Strip(s) == LStrip(RStrip(s))

FormatTextStub == <<FN_FORMAT_TEXT, "(){return ''}">>

\* s.split("\n")
RECURSIVE SplitLines(_)
SplitLines(s) ==
    LET nl == Find(s, <<NL>>, 0)
    IN  IF nl < 0 THEN <<s>>
        ELSE <<Slice(s, 0, nl)>> \o SplitLines(SliceFrom(s, nl + 1))

\* "\n".join(ls)
RECURSIVE JoinLines(_)
JoinLines(ls) ==
    IF Len(ls) = 1 THEN ls[1] ELSE ls[1] \o <<NL>> \o JoinLines(Tail(ls))

\* [ \t]: horizontal white space is written in units of four blanks.
IsBlank(c) == c = INDENT4

\* The leading horizontal white space of a line.
Indent(line) ==
    Slice(line, 0, Min({ j \in 0..Len(line) : j = Len(line) \/ ~IsBlank(line[j + 1]) }))

\* textwrap.dedent: lines of horizontal white space only become empty, then
\* the longest white space prefix common to the other non-empty lines is
\* removed from every line.
Dedent(text) ==
    LET ls == SplitLines(text)
        norm == [i \in 1..Len(ls) |-> IF Indent(ls[i]) = ls[i] THEN <<>> ELSE ls[i]]
        indents == { Indent(norm[i]) : i \in { k \in 1..Len(ls) : norm[k] # <<>> } }
        margin == IF indents = {} THEN 0
                  ELSE Max({ n \in 0..Min({ Len(x) : x \in indents }) :
                               \A x, y \in indents : Slice(x, 0, n) = Slice(y, 0, n) })
    IN  JoinLines([i \in 1..Len(ls) |-> SliceFrom(norm[i], margin)])

INDENT12 == <<INDENT4, INDENT4, INDENT4>>

\* dedent(f"""...{format_text_code.strip()}...""").lstrip(): the template is
\* indented by twelve blanks and the code is put into it before the dedent.
FmtModule(format_text_code) ==
    LStrip(Dedent(
        <<NL>> \o INDENT12 \o <<"'use strict';", NL, NL>>
          \o INDENT12
          \o <<"const { cyan, ..., formatDuration } = require('../utils/colors');",
               NL, NL>>
          \o INDENT12 \o Strip(format_text_code) \o <<NL, NL>>
          \o INDENT12 \o <<"module.exports = { formatText };", NL>> \o INDENT12))

Template(p) == <<"<template of " \o p \o ">", NL>>

RECURSIVE WriteTemplates(_, _)
WriteTemplates(files, ps) ==
    IF ps = <<>> THEN files
    ELSE WriteTemplates(_write_text(files, Head(ps), Template(Head(ps))), Tail(ps))

\* Mutant of _write_cli_modules: format-text.js is never written.
WriteCliModulesSkipsFmt(files, format_text_code, overwrite_format_text) ==
    WriteTemplates(files, GenPaths)

\* Mutant of _write_cli_modules: format-text.js is written whether or not it
\* exists and whatever the flag says.
WriteCliModulesAlwaysFmt(files, format_text_code, overwrite_format_text) ==
    WriteTemplates(_write_text(files, FMT, FmtModule(format_text_code)), GenPaths)

_write_cli_modules(files, format_text_code, overwrite_format_text) ==
    WriteTemplates(
        IF ~files[FMT].exists \/ overwrite_format_text
        THEN _write_text(files, FMT, FmtModule(format_text_code))
        ELSE files,
        GenPaths)

NewIndexJs == <<"#!/usr/bin/env node", NL, "<modular entrypoint>", NL>>

_write_new_index_js(files) == _write_text(files, INDEX, NewIndexJs)

(***************************************************************************)
(* State.                                                                  *)
(***************************************************************************)
VARIABLES
    fs,                 \* path -> [exists, text]: the documents on disk
    backups,            \* the .bak.<time stamp> copies: {[path, ts, text]}
    clock,              \* the wall clock, in seconds
    pc,                 \* where main() is: idle, extract, cli, index, kernel,
                        \* plugin-manager, navigation, scanner, summary, or how
                        \* the process ended: done, failed, wrongdir
    run,                \* number of runs started
    no_backup,          \* ns.no_backup of the current run
    overwrite_fmt,      \* ns.overwrite_cli_format of the current run
    format_text_code,   \* main()'s local of that name
    exitCode,           \* the process exit status of the last run (-1: none yet)
    errMsg,             \* the message printed with a failure
    summary,            \* the documents the printed summary names
    failedStep,         \* the routine step that raised ("" if none)
    failedBuf,          \* at a failure inside a routine: its in-memory state
    extraction,         \* this run's extraction: none, skipped, ok, failed
    written,            \* the writes of this run, in order: [path, text stored]
    pre,                \* the documents as they were when this run started
    prev,               \* how the previous run ended
    pPhase,             \* the primitive harness (SpecPrim): ready, called
    pCall,              \* the primitive, the text read and the arguments
    pDoc,               \* the document the harness reads and writes
    pRes,               \* what the call gave back
    xPhase,             \* the extractor harness (SpecExtract): ready,
                        \* extracted, embedded, again
    xDoc,               \* the document given to the extractor
    xBlock,             \* what _extract_format_text_function gave back
    xModule,            \* format-text.js as written with that block
    xAgain              \* what the extractor gave back on that module

runVars ==
    <<fs, backups, clock, pc, run, no_backup, overwrite_fmt, format_text_code,
      exitCode, errMsg, summary, failedStep, failedBuf, extraction, written,
      pre, prev>>

primVars == <<pPhase, pCall, pDoc, pRes>>

extVars == <<xPhase, xDoc, xBlock, xModule, xAgain>>

harnessVars == <<primVars, extVars>>

vars == <<runVars, harnessVars>>

\* ---- bounds ----
MaxRuns == 2
MaxClock == 1
MaxBlocks == 2
MaxLen == 3
MaxMark == 2
MaxGuard == 1
MaxLines == 4

(***************************************************************************)
(* Initial documents: a legacy checkout in which at most one document (or  *)
(* the pair index.js / format-text.js) departs from the canonical shape.   *)
(***************************************************************************)
FILLER == "..."

IndexLegacy(ret, eol) ==
    <<"#!/usr/bin/env node">> \o eol \o <<FN_FORMAT_TEXT, "(res, startTime) {">>
      \o eol \o <<ret>> \o eol \o <<RBRACE>> \o eol \o <<"main();">> \o eol

IndexDocs ==
    { IndexLegacy(RET_SINGLE, <<NL>>), IndexLegacy(RET_DOUBLE, <<NL>>),
      IndexLegacy(RET_SINGLE, <<CR, NL>>),
      <<FN_FORMAT_TEXT, "(res, startTime) {", NL, FILLER, NL, RBRACE, NL>>,
      <<FN_FORMAT_TEXT, "(res, startTime) {", NL, RET_SINGLE, RBRACE, NL>>,
      <<FILLER, NL>>,
      NewIndexJs }

FmtDocs == { <<"<an older format-text module>", NL>> }

RECURSIVE Repeat(_, _)
Repeat(s, n) == IF n = 0 THEN <<>> ELSE s \o Repeat(s, n - 1)

KernelDocs ==
    { head \o mid \o tail :
        head \in { <<>>, <<REQ_ERRORS>>, <<REQ_ERRORS, NL>>,
                   <<NEEDS_ENABLE_DOMAINS, NL>> },
        mid \in { Repeat(<<NL>> \o AllowBlock \o <<NL>>, n) : n \in 0..MaxBlocks }
                  \cup { <<NEEDS_ENABLE_SET, NL>>,
                         AllowBlock \o <<NL, NEEDS_ENABLE_SET, NL>> },
        tail \in { <<>>, <<RUN_COMMAND, NL>>, <<RUN_COMMAND, NL, NL>>,
                   <<GET_COMMAND_INFO, NL>>, <<RUN_COMMAND>> } }

PluginDocs ==
    { a \o b \o c :
        a \in { <<>>, <<LIST_PLUGIN_METAS, NL>> },
        b \in { <<>>, <<IS_PLUGIN_ENABLED, NL>> },
        c \in { <<>>, <<FILLER>>, <<FILLER, NL>> } }

NavDocs ==
    { a \o b \o c :
        a \in { <<>>, <<NAV_GUARD, NL>> },
        b \in { <<>>, <<NAV_START>>, <<NAV_END>>, <<NAV_START, FILLER, NAV_END>>,
                <<NAV_END, NAV_START>>, <<NAV_END, NAV_START, NAV_END>> },
        c \in { <<>>, <<NL>> } }

ScannerDocs ==
    { a \o b \o c :
        a \in { <<>>, <<ASYNC_REQ, NL>>, <<ASYNC_REQ>>, <<ASYNC_ALT, NL>>,
                <<ASYNC_ALT, INDENT4, NL, NL>>, <<REQUIRE_POOL, SEMI, NL>>,
                PoolImport },
        b \in { <<>>, <<BOX_START, FILLER, BOX_END, NL>>, <<BOX_END, BOX_START, NL>>,
                <<BOX_GUARD, NL>> },
        c \in { <<>>, <<ENHANCE_START, FILLER, ENHANCE_END, NL>>,
                <<ENHANCE_END, ENHANCE_START, NL>>, <<ENHANCE_GUARD, NL>> } }

Canonical ==
    [p \in Paths |->
        CASE p = INDEX -> File(IndexLegacy(RET_SINGLE, <<NL>>))
          [] p = KERNEL ->
               File(<<REQ_ERRORS, NL, NL>> \o AllowBlock \o <<NL, RUN_COMMAND, NL>>)
          [] p = PLUGIN_MANAGER -> File(<<IS_PLUGIN_ENABLED, NL>>)
          [] p = NAVIGATION -> File(<<NAV_START, FILLER, NAV_END, NL>>)
          [] p = SCANNER ->
               File(<<ASYNC_REQ, NL, BOX_START, FILLER, BOX_END, NL,
                      ENHANCE_START, FILLER, ENHANCE_END, NL>>)
          [] OTHER -> Absent]

States(docs) == { Absent } \cup { File(d) : d \in docs }

InitialDocSets ==
    { [Canonical EXCEPT ![INDEX] = i, ![FMT] = f] :
        i \in States(IndexDocs), f \in States(FmtDocs) }
    \cup { [Canonical EXCEPT ![KERNEL] = d] : d \in States(KernelDocs) }
    \cup { [Canonical EXCEPT ![PLUGIN_MANAGER] = d] : d \in States(PluginDocs) }
    \cup { [Canonical EXCEPT ![NAVIGATION] = d] : d \in States(NavDocs) }
    \cup { [Canonical EXCEPT ![SCANNER] = d] : d \in States(ScannerDocs) }
    \cup { [Canonical EXCEPT ![g] = File(<<"<an older module>">>)] : g \in GenSet }

NoBuf == Begin("", Returned(<<>>, FALSE))
NoFiles == [p \in Paths |-> Absent]
NoPrev == [ended |-> FALSE, ok |-> FALSE, fs |-> NoFiles,
           no_backup |-> FALSE, overwrite_fmt |-> FALSE]
NoCall ==
    [op |-> "", content |-> <<>>, a |-> <<>>, b |-> <<>>, ins |-> <<>>,
     guard |-> None]

RunIdle ==
    /\ backups = {}
    /\ clock = 0
    /\ pc = "idle"
    /\ run = 0
    /\ no_backup = FALSE
    /\ overwrite_fmt = FALSE
    /\ format_text_code = <<>>
    /\ exitCode = -1
    /\ errMsg = ""
    /\ summary = {}
    /\ failedStep = NoStep
    /\ failedBuf = NoBuf
    /\ extraction = "none"
    /\ written = <<>>
    /\ prev = NoPrev

PrimIdle ==
    /\ pPhase = "off"
    /\ pCall = NoCall
    /\ pDoc = <<>>
    /\ pRes = Raised("")

ExtIdle ==
    /\ xPhase = "off"
    /\ xDoc = <<>>
    /\ xBlock = Raised("")
    /\ xModule = <<>>
    /\ xAgain = Raised("")

Init ==
    /\ fs \in InitialDocSets
    /\ pre = fs
    /\ RunIdle
    /\ PrimIdle
    /\ ExtIdle

(***************************************************************************)
(* main(): one action per statement group, in program order.               *)
(***************************************************************************)
ErrWrongDir == "ERROR: src/index.js not found. Please run from the repository root."
ErrFmtMissing == "src/cli/format-text.js missing and could not extract from src/index.js."

\* The fixed list main() prints under "Done. Updated files:".
SummaryList ==
    {INDEX, "src/cli/*", "src/utils/promise-pool.js", KERNEL, PLUGIN_MANAGER,
     NAVIGATION, SCANNER}

Ended == pc \in {"done", "failed", "wrongdir"}

\* An exception leaves main(): __main__ prints a PatchError and exits 1; any
\* other exception ends the interpreter with a traceback and status 1.
Abort(step, msg, buf) ==
    /\ pc' = "failed"
    /\ exitCode' = 1
    /\ errMsg' = msg
    /\ failedStep' = step
    /\ failedBuf' = buf

Continue(next) ==
    /\ pc' = next
    /\ UNCHANGED <<exitCode, errMsg, failedStep, failedBuf>>

\* Mutant of Commit: the buffer is written back although a step raised.
CommitAlsoOnRaise(files, p, st) ==
    IF st.changed THEN _write_text(files, p, st.text) ELSE files

\* if changed_any: _write_text(p, content) -- reached only when no step raised.
Commit(files, p, st) ==
    IF st.ok /\ st.changed THEN _write_text(files, p, st.text) ELSE files

Logged(log, files, p, st) ==
    IF Commit(files, p, st) # files \/ (st.ok /\ st.changed)
    THEN Append(log, [path |-> p, text |-> Commit(files, p, st)[p].text])
    ELSE log

\* Mutant of Proceed: the failure is reported and the next routine runs.
ProceedPastFailure(st, next) ==
    /\ pc' = next
    /\ exitCode' = IF st.ok THEN exitCode ELSE 1
    /\ errMsg' = IF st.ok THEN errMsg ELSE st.err
    /\ failedStep' = IF st.ok THEN failedStep ELSE st.step
    /\ failedBuf' = IF st.ok THEN failedBuf ELSE st

\* An exception raised in a routine is not caught in main(): the routines
\* after it do not run.
Proceed(st, next) ==
    IF st.ok THEN Continue(next) ELSE Abort(st.step, st.err, st)

\* A patch routine called from main(): read, patch in memory (st is the
\* routine's state after its last step or at its raise), write if changed.
Routine(at, p, st, next) ==
    /\ pc = at
    /\ fs' = Commit(fs, p, st)
    /\ written' = Logged(written, fs, p, st)
    /\ Proceed(st, next)
    /\ UNCHANGED <<backups, clock, run, no_backup, overwrite_fmt, format_text_code,
                   summary, extraction, pre, prev, harnessVars>>

\* Mutant of IndexMissing: the entry document is not checked.
IndexNotChecked(files) == FALSE

\* if not index_path.exists()
IndexMissing(files) == ~files[INDEX].exists

\* Lines 1330-1353: parse the flags, check the entry document, back up.
StartRun ==
    /\ pc = "idle" \/ Ended
    /\ run < MaxRuns
    /\ run' = run + 1
    /\ \E nb \in BOOLEAN, ow \in BOOLEAN :
          /\ no_backup' = nb
          /\ overwrite_fmt' = ow
          /\ IF IndexMissing(fs)
             THEN /\ pc' = "wrongdir"
                  /\ exitCode' = 2
                  /\ errMsg' = ErrWrongDir
                  /\ backups' = backups
             ELSE /\ pc' = "extract"
                  /\ exitCode' = -1
                  /\ errMsg' = ""
                  /\ backups' = BackupAll(backups, fs, KeyFiles, ~nb, clock)
    /\ prev' = [ended |-> Ended, ok |-> pc = "done", fs |-> fs,
                no_backup |-> no_backup, overwrite_fmt |-> overwrite_fmt]
    /\ pre' = fs
    /\ format_text_code' = <<>>
    /\ summary' = {}
    /\ failedStep' = NoStep
    /\ failedBuf' = NoBuf
    /\ extraction' = "none"
    /\ written' = <<>>
    /\ UNCHANGED <<fs, clock, harnessVars>>

\* Mutant of ExtractionRaised: the failure is swallowed and main() goes on.
ExtractionSwallowed(ex) ==
    /\ pc' = "cli"
    /\ UNCHANGED <<exitCode, failedStep, failedBuf>>
    /\ errMsg' = ex.err

\* A raise from the read or from the extractor leaves main().
ExtractionRaised(ex) == Abort(Site("extract", 1), ex.err, NoBuf)

\* Lines 1355-1365: extract formatText unless format-text.js is kept.
ExtractFormatText ==
    /\ pc = "extract"
    /\ IF fs[FMT].exists /\ ~overwrite_fmt
       THEN /\ extraction' = "skipped"
            /\ format_text_code' = <<>>
            /\ Continue("cli")
       ELSE LET rd == _read_text(fs, INDEX)
                ex == IF rd.ok THEN _extract_format_text_function(rd.text) ELSE rd
            IN  IF ex.ok
                THEN /\ extraction' = "ok"
                     /\ format_text_code' = ex.text
                     /\ Continue("cli")
                ELSE /\ extraction' = "failed"
                     /\ format_text_code' = <<>>
                     /\ ExtractionRaised(ex)
    /\ UNCHANGED <<fs, backups, clock, run, no_backup, overwrite_fmt, summary,
                   written, pre, prev, harnessVars>>

\* The log entries of the writes to paths ps, whose stored texts are in files.
LogOf(files, ps) == [i \in 1..Len(ps) |-> [path |-> ps[i], text |-> files[ps[i]].text]]

\* Mutant of CodeOrStub: the placeholder is passed whatever was extracted.
AlwaysStub(code) == FormatTextStub

\* (format_text_code or "function formatText(){return ''}")
CodeOrStub(code) == IF code # <<>> THEN code ELSE FormatTextStub

\* Lines 1367-1371: the guard and _write_cli_modules.
WriteCliModules ==
    /\ pc = "cli"
    /\ IF ~fs[FMT].exists /\ format_text_code = <<>>
       THEN /\ Abort(Site("cli", 1), ErrFmtMissing, NoBuf)
            /\ UNCHANGED <<fs, written>>
       ELSE LET overwrite == overwrite_fmt \/ ~fs[FMT].exists
            IN  /\ fs' = _write_cli_modules(fs, CodeOrStub(format_text_code), overwrite)
                /\ written' = written
                      \o LogOf(_write_cli_modules(fs, CodeOrStub(format_text_code),
                                                    overwrite),
                               (IF overwrite THEN <<FMT>> ELSE <<>>) \o GenPaths)
                /\ Continue("index")
    /\ UNCHANGED <<backups, clock, run, no_backup, overwrite_fmt, format_text_code,
                   summary, extraction, pre, prev, harnessVars>>

\* Line 1374.
WriteNewIndexJs ==
    /\ pc = "index"
    /\ fs' = _write_new_index_js(fs)
    /\ written' = written \o LogOf(_write_new_index_js(fs), <<INDEX>>)
    /\ Continue("kernel")
    /\ UNCHANGED <<backups, clock, run, no_backup, overwrite_fmt, format_text_code,
                   summary, extraction, pre, prev, harnessVars>>

_patch_kernel_js == Routine("kernel", KERNEL, PatchKernel(_read_text(fs, KERNEL)), "plugin-manager")

_patch_plugin_manager_js ==
    Routine("plugin-manager", PLUGIN_MANAGER,
            PatchPluginManager(_read_text(fs, PLUGIN_MANAGER)), "navigation")

_patch_core_navigation_blank_detection ==
    Routine("navigation", NAVIGATION, PatchNavigation(_read_text(fs, NAVIGATION)),
            "scanner")

_patch_core_scanner_concurrency ==
    Routine("scanner", SCANNER, PatchScanner(_read_text(fs, SCANNER)), "summary")

\* Lines 1384-1397: the printed summary and return 0.
PrintSummary ==
    /\ pc = "summary"
    /\ summary' = SummaryList
    /\ pc' = "done"
    /\ exitCode' = 0
    /\ UNCHANGED <<fs, backups, clock, run, no_backup, overwrite_fmt,
                   format_text_code, errMsg, failedStep, failedBuf, extraction,
                   written, pre, prev, harnessVars>>

\* A second passes; runs may start within the same second or later.
Tick ==
    /\ pc = "idle" \/ Ended
    /\ clock < MaxClock
    /\ clock' = clock + 1
    /\ UNCHANGED <<fs, backups, pc, run, no_backup, overwrite_fmt, format_text_code,
                   exitCode, errMsg, summary, failedStep, failedBuf, extraction,
                   written, pre, prev, harnessVars>>

Next ==
    \/ StartRun
    \/ ExtractFormatText
    \/ WriteCliModules
    \/ WriteNewIndexJs
    \/ _patch_kernel_js
    \/ _patch_plugin_manager_js
    \/ _patch_core_navigation_blank_detection
    \/ _patch_core_scanner_concurrency
    \/ PrintSummary
    \/ Tick

Spec == Init /\ [][Next]_vars

(***************************************************************************)
(* Properties of a run (checked under Spec).                               *)
(***************************************************************************)
\* The stages of main() after the backups, in program order, and the
\* documents each one writes.
StageOrder ==
    <<"extract", "cli", "index", "kernel", "plugin-manager", "navigation",
      "scanner">>

RoutineStages == {"kernel", "plugin-manager", "navigation", "scanner"}

StageDocs(stage) ==
    CASE stage = "cli" -> {FMT} \cup GenSet
      [] stage = "index" -> {INDEX}
      [] stage = "kernel" -> {KERNEL}
      [] stage = "plugin-manager" -> {PLUGIN_MANAGER}
      [] stage = "navigation" -> {NAVIGATION}
      [] stage = "scanner" -> {SCANNER}
      [] OTHER -> {}

StageNo(stage) == CHOOSE i \in 1..Len(StageOrder) : StageOrder[i] = stage

DocsFrom(stage) ==
    UNION { StageDocs(StageOrder[i]) : i \in StageNo(stage)..Len(StageOrder) }

WrittenPaths == { written[i].path : i \in 1..Len(written) }

\* The last logged write to p, if any, is what is on disk.
KeepsWritten(p) ==
    \A i \in 1..Len(written) :
        (written[i].path = p /\ \A j \in (i + 1)..Len(written) : written[j].path # p)
            => fs[p] = File(written[i].text)

\* C3: a patch routine in which a step raises leaves its document on disk
\* byte-identical to what it was when the routine started; the partially
\* patched buffer is never written.
C3_NoPartialWrite ==
    [][(pc \in RoutineStages /\ pc' = "failed") => fs' = fs]_vars

\* C3 witness: a step raised after earlier steps of the same routine had
\* changed the in-memory buffer, and the document on disk is still the
\* pre-run one.
C3_Witness ==
    /\ pc = "failed"
    /\ failedStep = Site("scanner", 3)
    /\ failedBuf.changed
    /\ failedBuf.text # UniversalNewlines(fs[SCANNER].text)
    /\ fs[SCANNER] = pre[SCANNER]

\* C4: a run that follows a successful run on the same document set reports
\* zero documents as changed.
C4_SecondRunReportsNothing ==
    (pc = "done" /\ prev.ended /\ prev.ok) => summary = {}

\* C5: after a successful run without the overwrite flag, a second run with
\* the same flags succeeds too and leaves every document byte-identical.
C5_SecondRunChangesNothing ==
    (Ended /\ prev.ended /\ prev.ok /\ ~prev.overwrite_fmt /\ ~overwrite_fmt
       /\ no_backup = prev.no_backup)
        => (pc = "done" /\ fs = prev.fs)

\* C6: src/index.js is overwritten only after this run's extraction has been
\* decided (done on the pre-run index.js, or not required), and never in a run
\* whose required extraction raised.
C6_ExtractionBeforeOverwrite ==
    /\ INDEX \in WrittenPaths => extraction \in {"ok", "skipped"}
    /\ extraction = "skipped" => (pre[FMT].exists /\ ~overwrite_fmt)
    /\ extraction = "ok" =>
          format_text_code =
              _extract_format_text_function(_read_text(pre, INDEX).text).text
    /\ extraction = "failed" =>
          (pc = "failed" /\ INDEX \notin WrittenPaths /\ fs[INDEX] = pre[INDEX])

\* C6 witness: index.js has been overwritten in a run that extracted first.
C6_Witness ==
    /\ extraction = "ok"
    /\ INDEX \in WrittenPaths
    /\ fs[INDEX] = File(NewIndexJs)
    /\ pre[INDEX] # fs[INDEX]
    /\ format_text_code # <<>>

\* C6, the failing case: a required extraction raised with format-text.js
\* present and the overwrite flag set.
C6_FailedExtraction ==
    /\ extraction = "failed"
    /\ overwrite_fmt
    /\ pre[FMT].exists
    /\ fs = pre

\* C7: once a step has raised, the run is over with a non-zero status, the
\* documents of the stages from the failing one on are as they were before
\* the run, and the documents written before keep what was written.
C7_FailureStopsTheRun ==
    failedStep # NoStep =>
        /\ pc = "failed"
        /\ exitCode = 1
        /\ \A p \in DocsFrom(failedStep.stage) : fs[p] = pre[p] /\ p \notin WrittenPaths
        /\ \A p \in Paths : KeepsWritten(p)

\* C7 witness: the navigation routine raised; index.js, written earlier, has
\* its new content, and core-scanner.js, which a later routine would have
\* patched, is untouched.
C7_Witness ==
    /\ pc = "failed"
    /\ failedStep.stage = "navigation"
    /\ fs[INDEX] = File(NewIndexJs)
    /\ fs[INDEX] # pre[INDEX]
    /\ fs[SCANNER] = Canonical[SCANNER]
    /\ PatchScanner(_read_text(fs, SCANNER)).changed

\* Every place where a routine raises because an anchor is missing, with the
\* message it raises.
AnchorRaiseSites ==
    { [site |-> Site("kernel", 1), msg |-> ErrKernelRequire],
      [site |-> Site("kernel", 1), msg |-> ErrKernelEol],
      [site |-> Site("kernel", 2), msg |-> ErrKernelAllow],
      [site |-> Site("kernel", 3), msg |-> ErrInsertBefore],
      [site |-> Site("plugin-manager", 1), msg |-> ErrInsertBefore],
      [site |-> Site("navigation", 1), msg |-> ErrStartMarker],
      [site |-> Site("navigation", 1), msg |-> ErrEndMarker],
      [site |-> Site("scanner", 1), msg |-> ErrScannerRequire],
      [site |-> Site("scanner", 2), msg |-> ErrStartMarker],
      [site |-> Site("scanner", 2), msg |-> ErrEndMarker],
      [site |-> Site("scanner", 3), msg |-> ErrStartMarker],
      [site |-> Site("scanner", 3), msg |-> ErrEndMarker] }

AnchorFailure ==
    pc = "failed" /\ failedStep.stage \in RoutineStages /\ failedStep.step > 0

\* Every anchor failure of a run is one of the listed places.
RaiseSitesComplete ==
    AnchorFailure => [site |-> failedStep, msg |-> errMsg] \in AnchorRaiseSites

\* C8: when a run fails on a missing anchor, the reported message identifies
\* the expectation that failed: no other anchor's failure has that message.
C8_MessageIdentifiesAnchor ==
    AnchorFailure =>
        \A s \in AnchorRaiseSites : s.msg = errMsg => s.site = failedStep

\* C17: with backups enabled, every document that exists before a run and
\* is written during the run has a backup copy of its pre-run content, made
\* before the first write to it -- whatever path the run writes, not only the
\* five key files.
C17_BackupBeforeEveryWrite ==
    [][~no_backup =>
         \A i \in (Len(written) + 1)..Len(written') :
            pre[written'[i].path].exists =>
               \E b \in backups :
                  /\ b.path = written'[i].path
                  /\ b.ts = clock
                  /\ b.text = pre[written'[i].path].text]_vars

\* C17, the case that fails: format-text.js existed, backups are enabled and
\* the run has overwritten it.
C17_OverwrittenWithoutBackup ==
    /\ ~no_backup
    /\ pre[FMT].exists
    /\ \E i \in 1..Len(written) : written[i].path = FMT
    /\ ~\E b \in backups : b.path = FMT

\* C17, the key files: each one the run has written has its backup.
C17_KeyFilesBackedUp ==
    (~no_backup /\ ~Ended) =>
        \A i \in 1..Len(written) :
           (written[i].path \in {INDEX} \cup Targets /\ pre[written[i].path].exists)
              => \E b \in backups :
                    /\ b.path = written[i].path
                    /\ b.ts = clock
                    /\ b.text = pre[written[i].path].text

\* C18: backups are write-once: a backup file, once created, keeps its
\* content in every later step, and a run that backs up a document creates a
\* new backup file for it -- also when two runs fall in the same second.
C18_BackupsWriteOnce ==
    [][/\ \A b \in backups : b \in backups'
       /\ (run' # run /\ pc' = "extract" /\ ~no_backup')
            => \A p \in {INDEX} \cup Targets :
                  fs[p].exists => ~\E b \in backups : b.path = p /\ b.ts = clock]_vars

\* C18, the case that fails: a second run starts in the second in which the
\* first run made its backup of index.js.
C18_SameSecondRuns ==
    /\ run = 2
    /\ ~no_backup
    /\ pc = "extract"
    /\ pre[INDEX].text = NewIndexJs
    /\ backups # {}
    /\ \A b \in backups : b.ts = clock
    /\ \A b \in backups : b.path = INDEX => b.text = NewIndexJs

\* The documents the four patch routines leave, run in main()'s order on
\* files; a routine that raises writes nothing and ends the run.
AfterRoutines(files) ==
    LET k == PatchKernel(_read_text(files, KERNEL))
        f1 == Commit(files, KERNEL, k)
        m == PatchPluginManager(_read_text(f1, PLUGIN_MANAGER))
        f2 == Commit(f1, PLUGIN_MANAGER, m)
        n == PatchNavigation(_read_text(f2, NAVIGATION))
        f3 == Commit(f2, NAVIGATION, n)
        c == PatchScanner(_read_text(f3, SCANNER))
    IN  IF ~k.ok THEN f1
        ELSE IF ~m.ok THEN f2
        ELSE IF ~n.ok THEN f3
        ELSE Commit(f3, SCANNER, c)

\* The documents a run leaves, given the documents it starts from and the
\* overwrite flag alone (the backup flag is no argument): main()'s steps in
\* program order.
DocumentsAfterRun(files, overwrite) ==
    LET keep == files[FMT].exists /\ ~overwrite
        rd == _read_text(files, INDEX)
        ex == IF rd.ok THEN _extract_format_text_function(rd.text) ELSE rd
    IN  IF ~files[INDEX].exists \/ (~keep /\ ~ex.ok) THEN files
        ELSE AfterRoutines(_write_new_index_js(
                 _write_cli_modules(files,
                                    IF keep THEN FormatTextStub ELSE ex.text,
                                    overwrite \/ ~files[FMT].exists)))

\* C19: a run with the no-backup flag creates no backup file in any of its
\* steps, and the documents it leaves are the ones the run with backups
\* enabled leaves from the same initial documents: with either value of the
\* flag they are DocumentsAfterRun of the initial documents.
C19_NoBackupSameDocuments ==
    /\ [](Ended => fs = DocumentsAfterRun(pre, overwrite_fmt))
    /\ [][no_backup' => backups' = backups]_vars

\* C19 witness: a run with the no-backup flag has succeeded and changed
\* documents, and there is no backup file.
C19_Witness ==
    /\ pc = "done"
    /\ no_backup
    /\ backups = {}
    /\ fs[INDEX] # pre[INDEX]
    /\ fs[KERNEL] # pre[KERNEL]

\* C19, the other run: the same with backups enabled.
C19_BackedUpRun ==
    /\ pc = "done"
    /\ ~no_backup
    /\ backups # {}
    /\ fs[INDEX] # pre[INDEX]
    /\ fs[KERNEL] # pre[KERNEL]

\* The document a summary entry stands for was modified in this run.
Modified(entry) ==
    IF entry = "src/cli/*"
    THEN \E p \in Paths \ ({INDEX} \cup Targets \cup {"src/utils/promise-pool.js"}) :
            fs[p] # pre[p]
    ELSE fs[entry] # pre[entry]

\* C20: the summary of a successful run lists exactly the documents whose
\* content was modified in the run; a document left untouched is not in it.
C20_SummaryListsModified ==
    pc = "done" => \A entry \in SummaryList : entry \in summary <=> Modified(entry)

\* C20, the case that fails: a run that left kernel.js as it was names it.
C20_UntouchedListed ==
    /\ pc = "done"
    /\ fs[KERNEL] = pre[KERNEL]
    /\ KERNEL \in summary

\* C21: when src/index.js does not exist as main() starts, the run ends with
\* the wrong-directory status 2, which is neither the status of a success (0)
\* nor that of a patch failure (1), before any backup is made, any document
\* is written and any patch routine runs.
C21_WrongDirectoryEndsAtOnce ==
    /\ [][(run' # run /\ ~fs[INDEX].exists)
            => (pc' = "wrongdir" /\ exitCode' = 2 /\ backups' = backups /\ fs' = fs)]_vars
    /\ [](pc = "wrongdir"
            => (exitCode = 2 /\ fs = pre /\ written = <<>> /\ extraction = "none"
                  /\ failedStep = NoStep))
    /\ [](pc = "done" => exitCode = 0)
    /\ [](pc = "failed" => exitCode = 1)

\* C21 witness: a run with backups enabled has ended at the missing entry
\* document; a key file exists and there is no backup of it.
C21_Witness ==
    /\ pc = "wrongdir"
    /\ ~no_backup
    /\ ~fs[INDEX].exists
    /\ fs[KERNEL].exists
    /\ backups = {}

\* sub is a substring of content, by positions.
Occurs(content, sub) == \E i \in 0..Len(content) : IsAt(content, sub, i)

\* The routine steps as main() is about to run them on the documents: the
\* stage, the routine's buffer before the step, the text whose presence tells
\* that the step was applied already (its guard) and the literal anchor the
\* step is designated to find.
RoutineSteps ==
    LET k0 == Begin("kernel", _read_text(fs, KERNEL))
        k1 == KernelStep1(k0)
        k2 == KernelStep2(k1)
        m0 == Begin("plugin-manager", _read_text(fs, PLUGIN_MANAGER))
        n0 == Begin("navigation", _read_text(fs, NAVIGATION))
        s0 == Begin("scanner", _read_text(fs, SCANNER))
        s1 == ScannerStep1(s0)
        s2 == ScannerStep2(s1)
        step(site, before, guard, anchor) ==
            [site |-> site, before |-> before, guard |-> guard, anchor |-> anchor]
    IN  { step(Site("kernel", 1), k0, <<NEEDS_ENABLE_DOMAINS>>, <<REQ_ERRORS>>),
          step(Site("kernel", 2), k1, <<SHARED_IF>>, AllowBlock),
          step(Site("kernel", 3), k2, <<GET_COMMAND_INFO>>, <<RUN_COMMAND>>),
          step(Site("plugin-manager", 1), m0, <<LIST_PLUGIN_METAS>>,
               <<IS_PLUGIN_ENABLED>>),
          step(Site("navigation", 1), n0, <<NAV_GUARD>>, <<NAV_START>>),
          step(Site("scanner", 1), s0, <<REQUIRE_POOL>>, <<ASYNC_REQ, NL>>),
          step(Site("scanner", 2), s1, <<BOX_GUARD>>, <<BOX_START>>),
          step(Site("scanner", 3), s2, <<ENHANCE_GUARD>>, <<ENHANCE_START>>) }

\* The routine reaches the step with neither its guard nor its anchor in the
\* buffer.
AnchorMissingAt(s) ==
    /\ pc = s.site.stage
    /\ s.before.ok
    /\ ~Occurs(s.before.text, s.guard)
    /\ ~Occurs(s.before.text, s.anchor)

\* C23: a missing anchor is always a hard failure: when a routine reaches a
\* step whose guard and whose designated literal anchor are both absent from
\* the document, the routine raises at that step and writes nothing; no step
\* skips its edit silently or locates the edit site in another way.
C23_MissingAnchorIsHardFailure ==
    [][\A s \in RoutineSteps :
          AnchorMissingAt(s)
             => (pc' = "failed" /\ failedStep' = s.site /\ fs' = fs)]_vars

\* C23, a case that fails: core-scanner.js has the other spelling of the
\* require line only, and the run has gone on past the scanner routine.
C23_FallbackAnchorUsed ==
    /\ pc = "summary"
    /\ ~Occurs(pre[SCANNER].text, <<ASYNC_REQ>>)
    /\ ~Occurs(pre[SCANNER].text, <<REQUIRE_POOL>>)
    /\ Occurs(fs[SCANNER].text, PoolImport)

\* C23, another case that fails: kernel.js has neither the allowlist block
\* nor its replacement, and the run has gone on past the kernel routine.
C23_AllowlistStepSkipped ==
    /\ pc = "plugin-manager"
    /\ ~Occurs(pre[KERNEL].text, AllowBlock)
    /\ ~Occurs(fs[KERNEL].text, <<SHARED_IF>>)

\* C23 for the steps other than scanner step 1 and kernel step 2.
C23_OtherStepsFailHard ==
    [][\A s \in RoutineSteps :
          (AnchorMissingAt(s) /\ s.site \notin {Site("scanner", 1), Site("kernel", 2)})
             => (pc' = "failed" /\ failedStep' = s.site /\ fs' = fs)]_vars

\* No document is written twice in the run.
WrittenAtMostOnce ==
    \A i, j \in 1..Len(written) : written[i].path = written[j].path => i = j

\* C24: within one run every document is written at most once, and a write
\* happens only when the content written differs from the document's content
\* at that moment: no document is rewritten with identical content.
C24_WritesOnlyChanges ==
    /\ []WrittenAtMostOnce
    /\ [][\A i \in (Len(written) + 1)..Len(written') :
             ~(fs[written'[i].path].exists
                 /\ fs[written'[i].path].text = written'[i].text)]_vars

\* C24, the case that fails: the second run has written index.js, which held
\* the new entrypoint already.
C24_IndexRewritten ==
    /\ run = 2
    /\ pre[INDEX].text = NewIndexJs
    /\ \E i \in 1..Len(written) : written[i] = [path |-> INDEX, text |-> NewIndexJs]

\* C24 for the four patch routines: what a routine writes differs from what
\* the document held.
C24_RoutinesWriteOnlyChanges ==
    [][\A i \in (Len(written) + 1)..Len(written') :
          written'[i].path \in Targets
             => ~(fs[written'[i].path].exists
                    /\ fs[written'[i].path].text = written'[i].text)]_vars

\* The run has got past _write_cli_modules.
PastCliModules ==
    \/ pc \in {"index", "kernel", "plugin-manager", "navigation", "scanner",
               "summary", "done"}
    \/ pc = "failed" /\ failedStep.stage \notin {"extract", "cli"}

\* format-text.js existed as the run started and the overwrite flag is off.
KeepsFormatText == pre[FMT].exists /\ ~overwrite_fmt

\* C25 as stated: a run writes format-text.js if and only if it did not exist
\* as the run started or the overwrite flag is set; when it exists and the
\* flag is off, its content after the run is its content before and the run
\* does not read index.js for the extraction, so it does not fail there.
C25_FormatTextWrittenIffMissingOrFlag ==
    pc \in {"done", "failed"}
        => /\ FMT \in WrittenPaths <=> ~KeepsFormatText
           /\ KeepsFormatText
                => (fs[FMT] = pre[FMT] /\ extraction = "skipped"
                      /\ failedStep.stage \notin {"extract", "cli"})

\* C25 amended: a run writes format-text.js if and only if it gets past the
\* extraction (it neither stops at a missing index.js nor fails to extract)
\* and format-text.js did not exist as the run started or the overwrite flag
\* is set; when it exists and the flag is off, its content stays what it was
\* throughout the run, index.js is not read for the extraction, and the run
\* does not fail there.
C25_FormatTextWrittenIffReachedAndMissingOrFlag ==
    /\ FMT \in WrittenPaths <=> (PastCliModules /\ ~KeepsFormatText)
    /\ (KeepsFormatText /\ pc \notin {"idle", "wrongdir"})
         => /\ fs[FMT] = pre[FMT]
            /\ pc # "extract" => extraction = "skipped"
            /\ failedStep.stage \notin {"extract", "cli"}

\* C25 witness: format-text.js existed, the flag is off, index.js held no
\* formatText, and the run has succeeded with format-text.js as it was.
C25_Witness ==
    /\ pc = "done"
    /\ KeepsFormatText
    /\ ~Occurs(pre[INDEX].text, <<FN_FORMAT_TEXT>>)
    /\ fs[FMT] = pre[FMT]
    /\ FMT \notin WrittenPaths

\* C25, the other side: format-text.js existed, the flag is set, and the run
\* has written it.
C25_Overwritten ==
    /\ pc = "done"
    /\ pre[FMT].exists
    /\ overwrite_fmt
    /\ FMT \in WrittenPaths
    /\ fs[FMT] # pre[FMT]

\* C25, the case the statement misses: the flag is set and the run has
\* failed at the extraction, so format-text.js is not written.
C25_FailedBeforeWriting ==
    /\ pc = "failed"
    /\ overwrite_fmt
    /\ extraction = "failed"
    /\ FMT \notin WrittenPaths

\* C26: whenever _write_new_index_js overwrites index.js, format-text.js
\* exists on disk, so a run never has replaced index.js by the new entrypoint
\* while format-text.js is absent; and a run with the overwrite flag on an
\* index.js without formatText (an already refactored one) fails at the
\* extraction before any document is written.
C26_FormatTextExistsWhenIndexReplaced ==
    /\ [][(pc = "index" /\ pc' # "index") => (fs[FMT].exists /\ fs'[FMT] = fs[FMT])]_vars
    /\ [](INDEX \in WrittenPaths => fs[FMT].exists)
    /\ []((pc \notin {"idle", "extract", "wrongdir"} /\ overwrite_fmt
             /\ ~Occurs(pre[INDEX].text, <<FN_FORMAT_TEXT>>))
            => (pc = "failed" /\ failedStep = Site("extract", 1)
                  /\ errMsg = ErrNoFormatText /\ fs = pre /\ written = <<>>))

\* C26 witness: format-text.js did not exist as the run started, and the run
\* has replaced index.js.
C26_Witness ==
    /\ ~pre[FMT].exists
    /\ INDEX \in WrittenPaths
    /\ fs[INDEX].text = NewIndexJs
    /\ fs[FMT].exists

\* C26, the re-run: the second run, with the overwrite flag, on the index.js
\* the first run wrote, has failed at the extraction.
C26_RerunWithOverwrite ==
    /\ run = 2
    /\ prev.ok
    /\ overwrite_fmt
    /\ pre[INDEX].text = NewIndexJs
    /\ pc = "failed"
    /\ failedStep = Site("extract", 1)
    /\ fs = pre

\* The block the extractor returns from the index.js the run started with,
\* read as main() reads it.
BlockOfPreRunIndex ==
    _extract_format_text_function(_read_text(pre, INDEX).text)

\* C27: whenever a run writes format-text.js, the function text put into it
\* (as _write_cli_modules embeds it) is the non-empty block extracted from
\* index.js earlier in the same run; the placeholder stub is never written
\* to disk; and the failure 'format-text.js missing and could not extract'
\* is never raised.
C27_WrittenModuleHoldsExtractedBlock ==
    /\ \A i \in 1..Len(written) :
          written[i].path = FMT
             => /\ extraction = "ok"
                /\ BlockOfPreRunIndex.ok
                /\ BlockOfPreRunIndex.text # <<>>
                /\ format_text_code = BlockOfPreRunIndex.text
                /\ written[i].text = WriteText(FmtModule(BlockOfPreRunIndex.text))
                /\ Occurs(written[i].text, <<FN_FORMAT_TEXT>>)
                /\ ~Occurs(written[i].text, FormatTextStub)
    /\ \A p \in Paths :
          (fs[p].exists /\ fs[p] # pre[p]) => ~Occurs(fs[p].text, FormatTextStub)
    /\ errMsg # ErrFmtMissing
    /\ failedStep # Site("cli", 1)

\* C27 witness: format-text.js was missing, the run has extracted formatText
\* and written the module.
C27_Witness ==
    /\ ~pre[FMT].exists
    /\ extraction = "ok"
    /\ FMT \in WrittenPaths
    /\ fs[FMT].exists
    /\ pc = "done"

\* C27, the run that passes the stub: format-text.js is kept, nothing was
\* extracted, and the generated modules have been written.
C27_StubPassedNotWritten ==
    /\ KeepsFormatText
    /\ format_text_code = <<>>
    /\ "src/cli/writer.js" \in WrittenPaths
    /\ FMT \notin WrittenPaths

(***************************************************************************)
(* The primitives on arbitrary texts: a caller in the shape every routine  *)
(* has (read the document, call the primitive, write the text back if it   *)
(* reports a change), over every short text of a two character alphabet.   *)
(***************************************************************************)
Chars == {"a", NL}

Strs(n) == UNION { [1..k -> Chars] : k \in 0..n }

Inserts == { <<>>, <<"a">>, <<NL>>, <<"a", NL>> }

PrimOps == {"_replace_once", "_insert_after", "_insert_before", "_replace_between"}

PrimCalls ==
    { [op |-> o, content |-> d, a |-> a, b |-> b, ins |-> i, guard |-> g] :
        o \in PrimOps, d \in Strs(MaxLen), a \in Strs(MaxMark),
        b \in Strs(MaxMark), i \in Inserts,
        g \in {None} \cup { Some(x) : x \in Strs(MaxGuard) } }

InitPrim ==
    /\ pPhase = "ready"
    /\ pCall \in { c \in PrimCalls : c.op = "_replace_between" \/ c.b = <<>> }
    /\ pDoc = pCall.content
    /\ pRes = Raised("")
    /\ fs = NoFiles
    /\ pre = fs
    /\ RunIdle
    /\ ExtIdle

\* content, changed = <primitive>(content, ...); if changed: _write_text(p, content)
Call(op, r) ==
    /\ pPhase = "ready"
    /\ pCall.op = op
    /\ pRes' = r
    /\ pDoc' = IF r.ok /\ r.changed THEN WriteText(r.text) ELSE pDoc
    /\ pPhase' = "called"
    /\ UNCHANGED <<pCall, runVars, extVars>>

CallReplaceOnce ==
    Call("_replace_once", _replace_once(pDoc, pCall.a, pCall.ins, pCall.guard))

CallInsertAfter ==
    Call("_insert_after", _insert_after(pDoc, pCall.a, pCall.ins, pCall.guard))

CallInsertBefore ==
    Call("_insert_before", _insert_before(pDoc, pCall.a, pCall.ins, pCall.guard))

CallReplaceBetween ==
    Call("_replace_between",
         _replace_between(pDoc, pCall.a, pCall.b, pCall.ins, pCall.guard))

NextPrim ==
    \/ CallReplaceOnce
    \/ CallInsertAfter
    \/ CallInsertBefore
    \/ CallReplaceBetween

SpecPrim == InitPrim /\ [][NextPrim]_vars

(***************************************************************************)
(* Properties of the primitives (checked under SpecPrim).                  *)
(***************************************************************************)
Called == pPhase = "called"

\* The anchor a primitive requires is its first marker argument; this is the
\* failure it raises when that anchor is absent.
AnchorError(op) ==
    CASE op = "_replace_once" -> ErrReplaceOnce
      [] op = "_insert_after" -> ErrInsertAfter
      [] op = "_insert_before" -> ErrInsertBefore
      [] op = "_replace_between" -> ErrStartMarker

\* C1 as stated: whenever the guard string G occurs in D, the call returns
\* exactly (D, changed = false), without a failure, whatever the other
\* arguments are -- for every G, the empty string included.
C1_GuardAlwaysShortCircuits ==
    (Called /\ pCall.guard # None /\ Occurs(pCall.content, pCall.guard[1]))
        => (pRes = Returned(pCall.content, FALSE) /\ pDoc = pCall.content)

\* C1 amended: whenever a non-empty guard string G occurs in D, each of the
\* four primitives returns exactly (D, changed = false) and raises nothing,
\* whatever anchor, marker and replacement are, and the caller writes nothing.
C1_NonEmptyGuardShortCircuits ==
    (Called /\ pCall.guard # None /\ pCall.guard[1] # <<>>
       /\ Occurs(pCall.content, pCall.guard[1]))
        => (pRes = Returned(pCall.content, FALSE) /\ pDoc = pCall.content)

\* C1 witness: a guard hit on a call whose anchor is absent from D and whose
\* replacement would have changed D.
C1_Witness ==
    /\ Called
    /\ pCall.op = "_replace_between"
    /\ pCall.guard = Some(<<NL>>)
    /\ Occurs(pCall.content, <<NL>>)
    /\ ~Occurs(pCall.content, pCall.a)
    /\ pCall.ins # <<>>
    /\ pRes.ok /\ ~pRes.changed

\* C2 as stated: whenever D does not contain the required anchor, the
\* primitive fails with its anchor-not-found failure, returns no text, and
\* the caller writes nothing.
C2_MissingAnchorAlwaysFails ==
    (Called /\ ~Occurs(pCall.content, pCall.a))
        => (~pRes.ok /\ pRes.err = AnchorError(pCall.op) /\ pDoc = pCall.content)

\* C2 amended: whenever D does not contain the required anchor and the guard
\* does not short-circuit the call (no guard, an empty guard, or a guard that
\* does not occur in D), the primitive fails with its anchor-not-found
\* failure, returns no text, and the caller writes nothing.
C2_MissingAnchorFailsUnlessGuarded ==
    (Called /\ ~Occurs(pCall.content, pCall.a)
       /\ ~(pCall.guard # None /\ pCall.guard[1] # <<>>
              /\ Occurs(pCall.content, pCall.guard[1])))
        => (~pRes.ok /\ pRes.err = AnchorError(pCall.op) /\ pRes.text = <<>>
              /\ pDoc = pCall.content)

\* C2 witness: a call with a guard that is not in D and an anchor that is not
\* in D has raised.
C2_Witness ==
    /\ Called
    /\ pCall.op = "_replace_once"
    /\ pCall.guard = Some(<<"a">>)
    /\ pCall.content = <<NL, NL>>
    /\ pCall.a = <<NL, "a">>
    /\ ~pRes.ok

\* The text ends with exactly one newline.
OneTrailingNewline(s) ==
    /\ Len(s) >= 1
    /\ s[Len(s)] = NL
    /\ (Len(s) >= 2 => s[Len(s) - 1] # NL)

\* C9: after a write of any text s (here the text a primitive returned with
\* changed = true), the document ends with exactly one trailing newline.
C9_WrittenEndsWithOneNewline ==
    (Called /\ pRes.ok /\ pRes.changed) => OneTrailingNewline(pDoc)

\* First offset of sub in content at or after from, by positions.
FirstAtOrAfter(content, sub, from) ==
    CHOOSE i \in from..Len(content) :
        IsAt(content, sub, i) /\ \A j \in from..(i - 1) : ~IsAt(content, sub, j)

OccursAtOrAfter(content, sub, from) ==
    \E i \in from..Len(content) : IsAt(content, sub, i)

\* C10: _replace_between cuts at the first occurrence of endMarker at or after
\* the first occurrence of startMarker, never at an earlier one; when there
\* is none it raises the end-marker failure, even if endMarker occurs earlier.
C10_EndMarkerNotBeforeStart ==
    (Called /\ pCall.op = "_replace_between" /\ ~GuardHit(pCall.content, pCall.guard)
       /\ Occurs(pCall.content, pCall.a))
        => LET D == pCall.content
               start == FirstAtOrAfter(D, pCall.a, 0)
           IN  IF OccursAtOrAfter(D, pCall.b, start)
               THEN /\ pRes.ok
                    /\ pRes.text = Slice(D, 0, start) \o pCall.ins
                                     \o SliceFrom(D, FirstAtOrAfter(D, pCall.b, start))
               ELSE pRes = Raised(ErrEndMarker) /\ pDoc = D

\* C10 witness: endMarker occurs before startMarker and again after it, and
\* the call succeeded.
C10_Witness ==
    /\ Called
    /\ pCall.op = "_replace_between"
    /\ pCall.content = <<NL, "a", NL>>
    /\ pCall.a = <<"a">>
    /\ pCall.b = <<NL>>
    /\ pCall.guard = None
    /\ pRes.ok /\ pRes.changed

\* C10, the failing branch: endMarker occurs only before startMarker.
C10_OnlyEarlierEndMarker ==
    /\ Called
    /\ pCall.op = "_replace_between"
    /\ pCall.content = <<NL, "a">>
    /\ pCall.a = <<"a">>
    /\ pCall.b = <<NL>>
    /\ pCall.guard = None
    /\ pRes = Raised(ErrEndMarker)

\* C11: a successful _replace_between gives the text before the first
\* startMarker, then the replacement, then the text from the matched endMarker
\* on; that occurrence of startMarker is consumed, i.e. the matched endMarker
\* does not lie inside it -- for every pair of markers, equal, prefix or
\* overlapping ones included.
C11_StartMarkerConsumed ==
    (Called /\ pCall.op = "_replace_between" /\ pRes.ok /\ pRes.changed)
        => LET D == pCall.content
               start == FirstAtOrAfter(D, pCall.a, 0)
               end == FirstAtOrAfter(D, pCall.b, start)
           IN  /\ pRes.text = Slice(D, 0, start) \o pCall.ins \o SliceFrom(D, end)
               /\ end >= start + Len(pCall.a)

\* C11, the case that fails: endMarker equals startMarker and the call
\* succeeded.
C11_EqualMarkers ==
    /\ Called
    /\ pCall.op = "_replace_between"
    /\ pCall.a = <<"a">> /\ pCall.b = <<"a">>
    /\ pRes.ok /\ pRes.changed

\* C12: a successful _replace_once gives D with exactly its first occurrence
\* of old replaced by new and changed = true: the text before that occurrence
\* and all the text after it, later occurrences of old included, is as in D.
C12_FirstOccurrenceReplaced ==
    (Called /\ pCall.op = "_replace_once" /\ ~GuardHit(pCall.content, pCall.guard)
       /\ Occurs(pCall.content, pCall.a))
        => LET D == pCall.content
               out == pRes.text
               i == FirstAtOrAfter(D, pCall.a, 0)
               shift == Len(pCall.ins) - Len(pCall.a)
           IN  /\ pRes.ok /\ pRes.changed
               /\ Len(out) = Len(D) + shift
               /\ \A k \in 1..i : out[k] = D[k]
               /\ \A k \in 1..Len(pCall.ins) : out[i + k] = pCall.ins[k]
               /\ \A k \in (i + Len(pCall.a) + 1)..Len(D) : out[k + shift] = D[k]

\* C12 witness: old occurs twice in D and the call replaced the first.
C12_Witness ==
    /\ Called
    /\ pCall.op = "_replace_once"
    /\ pCall.content = <<"a", NL, "a">>
    /\ pCall.a = <<"a">>
    /\ pCall.ins = <<NL>>
    /\ pCall.guard = None
    /\ pRes = Returned(<<NL, NL, "a">>, TRUE)

\* The offset at which an insert primitive splices: the end of the first
\* anchor for _insert_after, the start of the first marker for _insert_before.
SpliceAt(op, content, anchor) ==
    FirstAtOrAfter(content, anchor, 0)
        + (IF op = "_insert_after" THEN Len(anchor) ELSE 0)

\* C13: a successful insert primitive gives D with insertText spliced at the
\* boundary of the first occurrence of the anchor and nothing else altered;
\* removing the inserted text from the output gives back D.
C13_InsertSplicesAtFirstAnchor ==
    (Called /\ pCall.op \in {"_insert_after", "_insert_before"}
       /\ ~GuardHit(pCall.content, pCall.guard) /\ Occurs(pCall.content, pCall.a))
        => LET D == pCall.content
               out == pRes.text
               cut == SpliceAt(pCall.op, D, pCall.a)
           IN  /\ pRes.ok /\ pRes.changed
               /\ out = Slice(D, 0, cut) \o pCall.ins \o SliceFrom(D, cut)
               /\ Slice(out, 0, cut) \o SliceFrom(out, cut + Len(pCall.ins)) = D

\* C13 witness: the anchor occurs twice and _insert_after spliced after the
\* first occurrence.
C13_Witness ==
    /\ Called
    /\ pCall.op = "_insert_after"
    /\ pCall.content = <<NL, "a", "a">>
    /\ pCall.a = <<"a">>
    /\ pCall.ins = <<NL>>
    /\ pCall.guard = None
    /\ pRes = Returned(<<NL, "a", NL, "a">>, TRUE)

\* C13, the other primitive: _insert_before spliced before the first marker.
C13_InsertBeforeCase ==
    /\ Called
    /\ pCall.op = "_insert_before"
    /\ pCall.content = <<NL, "a", "a">>
    /\ pCall.a = <<"a">>
    /\ pCall.ins = <<NL>>
    /\ pCall.guard = None
    /\ pRes = Returned(<<NL, NL, "a", "a">>, TRUE)

\* C22: for each primitive and every input on which it returns, the changed
\* flag is true exactly when the returned text differs from the input text.
C22_ChangedIffTextDiffers ==
    (Called /\ pRes.ok) => (pRes.changed <=> pRes.text # pCall.content)

\* C22, the case that fails: an insert of the empty text reports a change.
C22_EmptyInsertReported ==
    /\ Called
    /\ pCall.op = "_insert_after"
    /\ pCall.ins = <<>>
    /\ pRes.ok /\ pRes.changed
    /\ pRes.text = pCall.content

(***************************************************************************)
(* The block extractor on arbitrary documents: every document of up to     *)
(* MaxLines lines, each line ended in either convention (or the last one   *)
(* not ended), is given to the extractor; a block it returns is written    *)
(* into format-text.js as _write_cli_modules writes it, and the extractor  *)
(* is run again on that module.                                            *)
(***************************************************************************)
LineTexts ==
    { <<>>, <<FN_FORMAT_TEXT>>, <<RET_SINGLE>>, <<RET_DOUBLE>>, <<RBRACE>>,
      <<INDENT4>> }

Eols == { <<NL>>, <<CR, NL>> }

RECURSIVE DocsOfLines(_)
DocsOfLines(n) ==
    IF n = 0 THEN { <<>> }
    ELSE { d \o t \o e : d \in DocsOfLines(n - 1), t \in LineTexts, e \in Eols }

ExtractDocs ==
    UNION { DocsOfLines(n) : n \in 0..MaxLines }
    \cup { d \o <<RBRACE>> : d \in DocsOfLines(MaxLines - 1) }

InitExtract ==
    /\ xPhase = "ready"
    /\ xDoc \in ExtractDocs
    /\ xBlock = Raised("")
    /\ xModule = <<>>
    /\ xAgain = Raised("")
    /\ fs = NoFiles
    /\ pre = fs
    /\ RunIdle
    /\ PrimIdle

\* format_text_code = _extract_format_text_function(index_js_old)
Extract ==
    /\ xPhase = "ready"
    /\ xBlock' = _extract_format_text_function(xDoc)
    /\ xPhase' = "extracted"
    /\ UNCHANGED <<xDoc, xModule, xAgain, runVars, primVars>>

\* _write_cli_modules(repo, format_text_code=..., overwrite_format_text=True):
\* the text stored in format-text.js.
Embed ==
    /\ xPhase = "extracted"
    /\ xBlock.ok
    /\ xModule' = _write_cli_modules(NoFiles, xBlock.text, TRUE)[FMT].text
    /\ xPhase' = "embedded"
    /\ UNCHANGED <<xDoc, xBlock, xAgain, runVars, primVars>>

\* The extractor on the generated module.
ExtractAgain ==
    /\ xPhase = "embedded"
    /\ xAgain' = _extract_format_text_function(xModule)
    /\ xPhase' = "again"
    /\ UNCHANGED <<xDoc, xBlock, xModule, runVars, primVars>>

NextExtract ==
    \/ Extract
    \/ Embed
    \/ ExtractAgain

SpecExtract == InitExtract /\ [][NextExtract]_vars

(***************************************************************************)
(* Properties of the block extractor (checked under SpecExtract).          *)
(***************************************************************************)
Extracted == xPhase # "ready" /\ xBlock.ok

LF_TERMINATOR == <<NL, RBRACE, NL>>
CRLF_TERMINATOR == <<CR, NL, RBRACE, CR, NL>>

EndsWith(s, suffix) == Len(s) >= Len(suffix) /\ IsAt(s, suffix, Len(s) - Len(suffix))

\* C14: whenever the extractor succeeds, the block is the substring of the
\* document that begins at the first 'function formatText' and ends with the
\* complete terminator, the closing-brace line with its line ending, in the
\* LF and in the CRLF convention.
C14_BlockEndsWithTerminator ==
    Extracted
        => LET start == FirstAtOrAfter(xDoc, <<FN_FORMAT_TEXT>>, 0)
           IN  /\ IsAt(xDoc, xBlock.text, start)
               /\ \/ EndsWith(xBlock.text, LF_TERMINATOR)
                  \/ EndsWith(xBlock.text, CRLF_TERMINATOR)

\* C14, the case that fails: a block cut at a CRLF terminator.
C14_CrLfBlock ==
    /\ Extracted
    /\ ~Occurs(xDoc, LF_TERMINATOR)
    /\ Occurs(xDoc, CRLF_TERMINATOR)

\* The offset of the distinguishing marker the extractor matched: the first
\* single-quoted return at or after start if there is one, else the first
\* double-quoted one.
MatchedMarker(doc, start) ==
    IF OccursAtOrAfter(doc, <<RET_SINGLE>>, start)
    THEN FirstAtOrAfter(doc, <<RET_SINGLE>>, start)
    ELSE FirstAtOrAfter(doc, <<RET_DOUBLE>>, start)

\* A blank line followed by a line that is only a closing brace, in the two
\* line-ending conventions.
BlankLineThenBrace ==
    { <<NL, NL, RBRACE, NL>>, <<CR, NL, CR, NL, RBRACE, CR, NL>> }

\* The offsets at or after from where one of the patterns occurs.
PatternOffsets(doc, patterns, from) ==
    { i \in from..Len(doc) : \E t \in patterns : IsAt(doc, t, i) }

\* The block ends in the closing-brace line of the first of the patterns at
\* or after from.
EndsAtFirst(doc, patterns, from, blockEnd) ==
    /\ PatternOffsets(doc, patterns, from) # {}
    /\ LET at == Min(PatternOffsets(doc, patterns, from))
       IN  \E t \in patterns :
              /\ IsAt(doc, t, at)
              /\ blockEnd > at + Len(t) - 3
              /\ blockEnd <= at + Len(t)

\* C15: the terminator the extractor chooses is the first position at or
\* after the matched distinguishing marker where a single blank line is
\* followed by a line consisting only of a closing brace, in the LF or the
\* CRLF convention, whichever occurs first; a lone closing-brace line that is
\* not preceded by a blank line does not end the block.
C15_TerminatorIsFirstBlankLineBrace ==
    Extracted
        => LET start == FirstAtOrAfter(xDoc, <<FN_FORMAT_TEXT>>, 0)
           IN  EndsAtFirst(xDoc, BlankLineThenBrace, MatchedMarker(xDoc, start),
                           start + Len(xBlock.text))

\* C15 without the blank line: the block ends at the first closing-brace line
\* at or after the matched marker, in either convention, whichever is first.
C15_TerminatorIsFirstBraceLine ==
    Extracted
        => LET start == FirstAtOrAfter(xDoc, <<FN_FORMAT_TEXT>>, 0)
           IN  EndsAtFirst(xDoc, {LF_TERMINATOR, CRLF_TERMINATOR},
                           MatchedMarker(xDoc, start), start + Len(xBlock.text))

\* C15, a case that fails: the closing-brace line follows the marker line
\* directly, without a blank line, in a document of LF lines.
C15_NoBlankLine ==
    /\ Extracted
    /\ xDoc = <<FN_FORMAT_TEXT, NL, RET_SINGLE, NL, RBRACE, NL>>
    /\ xBlock.text = xDoc

\* C15, another case that fails: a CRLF closing-brace line comes first, an
\* LF one later, and the block runs to the later one.
C15_LaterLfTerminatorChosen ==
    /\ Extracted
    /\ xDoc = <<FN_FORMAT_TEXT, CR, NL, RET_SINGLE, CR, NL, RBRACE, CR, NL,
                RBRACE, NL>>
    /\ xBlock.text = xDoc

\* C16: for every document from which the extractor returns a block B,
\* writing B into format-text.js as _write_cli_modules does and running the
\* extractor on that module returns a block identical to B.
C16_ExtractionRoundTrip ==
    xPhase = "again" => (xAgain.ok /\ xAgain.text = xBlock.text)

\* C16, a case that fails in a document of LF lines: the block holds a line
\* of blanks only.
C16_BlankOnlyLine ==
    /\ xPhase = "again"
    /\ ~Occurs(xDoc, <<CR>>)
    /\ Occurs(xBlock.text, <<NL, INDENT4, NL>>)
    /\ xAgain.ok /\ xAgain.text # xBlock.text

\* C16, a case that holds: LF lines, none of them of blanks only.
C16_PlainLfBlock ==
    /\ xPhase = "again"
    /\ xDoc = <<FN_FORMAT_TEXT, NL, RET_SINGLE, NL, RBRACE, NL>>
    /\ xAgain = Returned(xDoc, FALSE)

=============================================================================
